---- MODULE Spec2Model ----
(***************************************************************************)
(* Model of the calendar assistant: the interval scheduling logic of       *)
(* GoogleCalendarAPI.check_conflicts and GoogleCalendarAPI.find_free_slots *)
(* (src/calendar_api.py) over the events the calendar provider lists, and  *)
(* the scheduling flow of the Streamlit page (src/ui_app.py).              *)
(*                                                                         *)
(* Time is counted in ticks, the one unit of instants, working hours,      *)
(* buffers and durations; every timestamp of the model lies on one         *)
(* calendar day and in one time zone.  An ISO-8601 text is modelled by     *)
(* what datetime.fromisoformat makes of it: either it parses to an         *)
(* instant, or parsing raises ValueError.                                  *)
(*                                                                         *)
(* Specifications: Spec, one call of a query at a time on any calendar;    *)
(* SpecFrame, the same calls next to a session in use; SpecConcurrent, two *)
(* invocations of the queries step by step; SpecUI, two browser sessions   *)
(* on one calendar.                                                        *)
(***************************************************************************)
EXTENDS Integers, Sequences, FiniteSets, TLC

\* Bounds of the model.
MaxTime == 3
MaxEvents == 2
MaxBuffer == 2
MaxDuration == 2

\* total_seconds() of a timedelta of one minute (src/calendar_api.py:310).
SecondsPerMinute == 60

\* calendar: the provider's events; call, ret: the call of the API object
\* that has just returned; sess: st.session_state and the script run of each
\* browser session; upcoming_cache: the st.cache_data entry of
\* get_upcoming_events, one for all sessions; inv, frames: the invocations
\* of the two queries that run at the same time, and their local variables.
VARIABLES calendar, call, ret, sess, upcoming_cache, inv, frames

vars == <<calendar, call, ret, sess, upcoming_cache, inv, frames>>

Times == 0..MaxTime

Max(a, b) == IF a >= b THEN a ELSE b

----------------------------------------------------------------------------
(* Timestamp texts.                                                        *)

\* datetime.isoformat(): the text of instant t.
Iso(t) == [ok |-> TRUE, t |-> t]

\* A text datetime.fromisoformat / datetime.strptime rejects (ValueError).
Garbled == [ok |-> FALSE, t |-> 0]

Texts == {Iso(t) : t \in Times} \cup {Garbled}

\* datetime.fromisoformat(text.replace('Z', '+00:00')) succeeds.
Parses(text) == text.ok

\* The instant datetime.fromisoformat returns for a text that parses.
FromIso(text) == text.t

----------------------------------------------------------------------------
(* The calendar provider (Google Calendar events resource).                *)

\* An event of the provider.  timed: the event's start holds 'dateTime';
\* otherwise it is an all-day event, and start/end bound its day(s).
Event(id, timed, start, end) ==
    [id |-> id, timed |-> timed, start |-> start, end |-> end]

\* The shapes of events the provider holds: timed events with start <= end,
\* and the all-day event of the modelled day.
EventShapes ==
    {sh \in {TRUE} \X Times \X Times : sh[2] <= sh[3]}
        \cup {<<FALSE, 0, MaxTime + 1>>}

\* Calendars of n events.  The provider's ids are unique (here: the
\* position).  How the provider stores its events cannot be observed: it
\* lists them by start, so the model keeps them in the provider's listing
\* order, which is any order among events of equal start.
CalendarsOfLen(n) ==
    {c \in {[i \in 1..n |-> Event(i, sh[i][1], sh[i][2], sh[i][3])] :
                sh \in [1..n -> EventShapes]} :
        \A i \in 1..n, j \in 1..n : i < j => c[i].start <= c[j].start}

Calendars == UNION {CalendarsOfLen(n) : n \in 0..MaxEvents}

\* events().list(...).execute() is answered (the alternative: HttpError).
\* The provider rejects an empty time range (timeMin >= timeMax).
ListAnswered(net, timeMin, timeMax) == net = "ok" /\ timeMin < timeMax

\* Stable insertion of event e into a sequence ordered by start.
RECURSIVE InsertByStart(_, _)
InsertByStart(e, sorted) ==
    IF sorted = <<>> THEN <<e>>
    ELSE IF Head(sorted).start <= e.start
         THEN <<Head(sorted)>> \o InsertByStart(e, Tail(sorted))
         ELSE <<e>> \o sorted

\* orderBy='startTime': ascending start; the provider documents no order
\* among events of equal start (here: the order in which it holds them).
RECURSIVE OrderByStartTime(_)
OrderByStartTime(events) ==
    IF events = <<>> THEN <<>>
    ELSE InsertByStart(events[Len(events)],
                       OrderByStartTime(SubSeq(events, 1, Len(events) - 1)))

\* The event lies in the listed range: timeMin is an exclusive lower bound
\* of its end, timeMax an exclusive upper bound of its start.
InRange(e, timeMin, timeMax) == e.end > timeMin /\ e.start < timeMax

\* items of events().list(timeMin, timeMax, singleEvents=True,
\* orderBy='startTime') over the stored events cal.
ListEvents(cal, timeMin, timeMax) ==
    OrderByStartTime(SelectSeq(cal, LAMBDA e : InRange(e, timeMin, timeMax)))

----------------------------------------------------------------------------
(* GoogleCalendarAPI.check_conflicts                                       *)

\* An entry of the returned list: a conflicting event, or the {'error': ..}
\* entry of the except branches.
ConflictEntry(event) ==
    [error |-> FALSE, id |-> event.id, start |-> event.start, end |-> event.end]

ErrorEntry == [error |-> TRUE, id |-> 0, start |-> 0, end |-> 0]

\* buffer_start: start_dt - timedelta(minutes=buffer_minutes).
BufferStart(start_dt, buffer_minutes) == start_dt - buffer_minutes

\* Mutant of BufferEnd: the buffer is taken off the candidate's end.
BufferEndPulledIn(end_dt, buffer_minutes) == end_dt - buffer_minutes

\* Mutant of BufferEnd: the range is not padded after the candidate's end.
BufferEndUnpadded(end_dt, buffer_minutes) == end_dt

\* buffer_end: end_dt + timedelta(minutes=buffer_minutes).
BufferEnd(end_dt, buffer_minutes) == end_dt + buffer_minutes

\* Mutant of HasDateTime: all-day events are taken like timed ones.
HasDateTimeAlways(event) == TRUE

\* 'dateTime' in event['start']: the event is not an all-day event.
HasDateTime(event) == event.timed

\* The loop over the listed events: every timed one, in the listed order.
RECURSIVE CollectConflicts(_)
CollectConflicts(events) ==
    IF events = <<>> THEN <<>>
    ELSE IF HasDateTime(Head(events))
         THEN <<ConflictEntry(Head(events))>> \o CollectConflicts(Tail(events))
         ELSE CollectConflicts(Tail(events))

\* The pair check_conflicts returns.  ValueError of fromisoformat and
\* HttpError of the listing both end in an except branch, which returns.
CheckConflictsRet(cal, start_time, end_time, buffer_minutes, net) ==
    IF ~(Parses(start_time) /\ Parses(end_time))
    THEN [has_conflicts |-> FALSE, conflicts |-> <<ErrorEntry>>]
    ELSE LET buffer_start == BufferStart(FromIso(start_time), buffer_minutes)
             buffer_end == BufferEnd(FromIso(end_time), buffer_minutes)
         IN  IF ~ListAnswered(net, buffer_start, buffer_end)
             THEN [has_conflicts |-> FALSE, conflicts |-> <<ErrorEntry>>]
             ELSE LET conflicts ==
                          CollectConflicts(ListEvents(cal, buffer_start, buffer_end))
                  IN  [has_conflicts |-> Len(conflicts) > 0,
                       conflicts |-> conflicts]

----------------------------------------------------------------------------
(* GoogleCalendarAPI.find_free_slots                                       *)

\* Mutant of Slot: the seconds of the slot are taken for its minutes.
SlotSecondsAsMinutes(start, end) ==
    [start |-> start, end |-> end,
     duration_minutes |-> (end - start) * SecondsPerMinute]

\* A returned slot; duration_minutes is int(total_seconds() / 60).
Slot(start, end) ==
    [start |-> start, end |-> end,
     duration_minutes |-> ((end - start) * SecondsPerMinute) \div SecondsPerMinute]

\* Mutant of FitsBetween: any gap that is not negative is taken.
FitsBetweenAnyGap(earlier, later, duration_minutes) == later - earlier >= 0

\* Mutant of FitsBetween: the gap has to be longer than the duration.
FitsBetweenStrict(earlier, later, duration_minutes) ==
    (later - earlier) * SecondsPerMinute > duration_minutes * SecondsPerMinute

\* (later - earlier).total_seconds() >= duration_minutes * 60.
FitsBetween(earlier, later, duration_minutes) ==
    (later - earlier) * SecondsPerMinute >= duration_minutes * SecondsPerMinute

\* Mutant of AdvanceCursor: the cursor stays where it was.
AdvanceCursorKeep(current_time, event_end) == current_time

\* Mutant of AdvanceCursor: the cursor is set to the end of the event.
AdvanceCursorToEnd(current_time, event_end) == event_end

\* current_time = max(current_time, event_end).
AdvanceCursor(current_time, event_end) == Max(current_time, event_end)

\* The loop over the listed events.  The result holds free_slots and
\* current_time after the loop, and cursors: current_time before the loop
\* and after each timed event.
RECURSIVE SweepEvents(_, _, _, _, _)
SweepEvents(events, duration_minutes, current_time, free_slots, cursors) ==
    IF events = <<>>
    THEN [free_slots |-> free_slots, current_time |-> current_time,
          cursors |-> cursors]
    ELSE LET event == Head(events) IN
         IF HasDateTime(event)
         THEN LET event_start == event.start
                  event_end == event.end
                  slots1 == IF FitsBetween(current_time, event_start, duration_minutes)
                            THEN Append(free_slots, Slot(current_time, event_start))
                            ELSE free_slots
                  cursor1 == AdvanceCursor(current_time, event_end)
              IN  SweepEvents(Tail(events), duration_minutes, cursor1, slots1,
                              Append(cursors, cursor1))
         ELSE SweepEvents(Tail(events), duration_minutes, current_time,
                          free_slots, cursors)

\* Mutant of TrailingSlot: nothing is appended after the loop.
TrailingSlotDropped(sweep, end_time, duration_minutes) == sweep.free_slots

\* The slots appended after the loop: the free time after the last event.
TrailingSlot(sweep, end_time, duration_minutes) ==
    IF FitsBetween(sweep.current_time, end_time, duration_minutes)
    THEN Append(sweep.free_slots, Slot(sweep.current_time, end_time))
    ELSE sweep.free_slots

\* What find_free_slots computes: the returned list and the cursor's history.
\* date parses or not (strptime); any exception makes the result [].
FindFreeSlotsRun(cal, date, duration_minutes, work_start_hour, work_end_hour, net) ==
    IF ~Parses(date)
    THEN [free_slots |-> <<>>, cursors |-> <<>>]
    ELSE LET start_time == work_start_hour
             end_time == work_end_hour
         IN  IF ~ListAnswered(net, start_time, end_time)
             THEN [free_slots |-> <<>>, cursors |-> <<>>]
             ELSE LET sweep == SweepEvents(ListEvents(cal, start_time, end_time),
                                           duration_minutes, start_time, <<>>,
                                           <<start_time>>)
                  IN  [free_slots |-> TrailingSlot(sweep, end_time, duration_minutes),
                       cursors |-> sweep.cursors]

\* The list find_free_slots returns.
FindFreeSlotsRet(cal, date, duration_minutes, work_start_hour, work_end_hour, net) ==
    FindFreeSlotsRun(cal, date, duration_minutes, work_start_hour,
                     work_end_hour, net).free_slots

----------------------------------------------------------------------------
(* The state machine of the two queries: the provider's calendar, and the  *)
(* call of the API object that has just returned (op "none": no call) with *)
(* what it returned.  The calls are synchronous: one at a time.  The       *)
(* calendar is any calendar the provider may hold; the queries leave it.   *)

Buffers == (0 - 1)..MaxBuffer
Durations == (0 - 1)..MaxDuration
Nets == {"ok", "error"}

\* The reply of the language model to extract_event_info, as json.loads
\* and the tests on it see it.  kind: "none" (no reply), "text" (not JSON),
\* "object", "array", "string", "scalar" (number, true, false, null);
\* names: the keys of the object, the members of the array or the
\* substrings of the string among the names the code looks for;
\* start_time, end_time: the values of these keys of an object.
NoReply ==
    [kind |-> "none", names |-> {}, start_time |-> Garbled, end_time |-> Garbled]

\* The second component extract_event_info returns.  mapping: it is a
\* dict; error: 'error' in it; start_time, end_time: its times.
NoResult ==
    [mapping |-> FALSE, error |-> FALSE, start_time |-> Garbled,
     end_time |-> Garbled]

NoCall ==
    [op |-> "none", start_time |-> Garbled, end_time |-> Garbled,
     buffer_minutes |-> 0, date |-> Garbled, duration_minutes |-> 0,
     work_start_hour |-> 0, work_end_hour |-> 0, net |-> "ok",
     reply |-> NoReply]

\* raised: the exception that leaves the call ("none": the call returns).
NoRet ==
    [has_conflicts |-> FALSE, conflicts |-> <<>>, free_slots |-> <<>>,
     cursors |-> <<>>, raised |-> "none", success |-> FALSE,
     result |-> NoResult]

\* The invocations of the model that may run at the same time.
Invocations == {1, 2}

\* An invocation: pc "none" (not called), "loop" (in the loop over the
\* listed events), "done" (returned); its arguments; what it returned.
NoInv == [pc |-> "none", call |-> NoCall, result |-> NoRet]

\* The local variables of an invocation: the listed events not yet
\* processed, current_time, free_slots, conflicts.
NoFrame ==
    [events |-> <<>>, current_time |-> 0, free_slots |-> <<>>, conflicts |-> <<>>]

\* No query is running.
NoInvocations ==
    /\ inv = [i \in Invocations |-> NoInv]
    /\ frames = [i \in Invocations |-> NoFrame]

\* The browser sessions of the model.
Sessions == {1, 2}

\* last_extraction = None.
NoExtraction == [present |-> FALSE, start_time |-> Garbled, end_time |-> Garbled]

\* The dict extract_event_info returns on success: grok_nlp.py has parsed
\* its start_time and end_time with fromisoformat.
Extraction(start, end) ==
    [present |-> TRUE, start_time |-> Iso(start), end_time |-> Iso(end)]

\* The extractions of the model: the events of one tick.
EventData == {Extraction(a, a + 1) : a \in 0..(MaxTime - 1)}

\* st.session_state after lines 122-135 of a new session, and the script
\* run of the session: pc "idle" (the page is shown, no run), "check"
\* (schedule_event is about to call check_conflicts), "create" (about to
\* call create_event), "upcoming" (show_upcoming_events is about to ask
\* the provider); clicked, buffer_time, conflicts, forced: the button
\* whose click started the run, the slider's value, the list
\* check_conflicts returned and whether force_schedule_event is running;
\* conflict_shown: the page shows the conflict with its two buttons.
FreshSession ==
    [pc |-> "idle", clicked |-> "none", buffer_time |-> 0,
     last_extraction |-> NoExtraction, events_created |-> <<>>,
     conflicts |-> <<>>, forced |-> FALSE, conflict_shown |-> FALSE]

\* st.cache_data holds no value of get_upcoming_events.
EmptyCache == [filled |-> FALSE, events |-> <<>>]

\* The sessions have not started and nothing is cached.
NoUI ==
    /\ sess = [s \in Sessions |-> FreshSession]
    /\ upcoming_cache = EmptyCache

Init ==
    /\ calendar \in Calendars
    /\ call = NoCall
    /\ ret = NoRet
    /\ NoUI
    /\ NoInvocations

\* Mutant of QueryFrame: the query clears the cache of upcoming events.
QueryFrameClearingCache ==
    /\ UNCHANGED <<calendar, sess>>
    /\ upcoming_cache' = EmptyCache

\* What check_conflicts and find_free_slots leave alone: they call the
\* provider's events().list only and touch neither st.session_state nor
\* st.cache_data.
QueryFrame == UNCHANGED <<calendar, sess, upcoming_cache>>

\* check_conflicts(start_time, end_time, buffer_minutes).  Its whole body is
\* in a try whose except branches return: no exception leaves the call.
CheckConflicts ==
    /\ call.op = "none"
    /\ \E start_time \in Texts, end_time \in Texts, buffer_minutes \in Buffers,
          net \in Nets :
        LET r == CheckConflictsRet(calendar, start_time, end_time,
                                   buffer_minutes, net)
        IN  /\ call' = [NoCall EXCEPT !.op = "check_conflicts",
                                      !.start_time = start_time,
                                      !.end_time = end_time,
                                      !.buffer_minutes = buffer_minutes,
                                      !.net = net]
            /\ ret' = [NoRet EXCEPT !.has_conflicts = r.has_conflicts,
                                    !.conflicts = r.conflicts]
            /\ QueryFrame
            /\ UNCHANGED <<inv, frames>>

\* find_free_slots(date, duration_minutes, work_start_hour, work_end_hour).
\* Its whole body is in a try whose except branch returns [].
FindFreeSlots ==
    /\ call.op = "none"
    /\ \E date \in {Iso(0), Garbled}, duration_minutes \in Durations,
          work_start_hour \in Times, work_end_hour \in Times, net \in Nets :
        LET r == FindFreeSlotsRun(calendar, date, duration_minutes,
                                  work_start_hour, work_end_hour, net)
        IN  /\ call' = [NoCall EXCEPT !.op = "find_free_slots",
                                      !.date = date,
                                      !.duration_minutes = duration_minutes,
                                      !.work_start_hour = work_start_hour,
                                      !.work_end_hour = work_end_hour,
                                      !.net = net]
            /\ ret' = [NoRet EXCEPT !.free_slots = r.free_slots,
                                    !.cursors = r.cursors]
            /\ QueryFrame
            /\ UNCHANGED <<inv, frames>>

\* The caller has taken what the call returned: the call's values are
\* locals of the caller and end with it; the calendar stays.
Return ==
    /\ call.op # "none"
    /\ call' = NoCall
    /\ ret' = NoRet
    /\ UNCHANGED <<calendar, sess, upcoming_cache, inv, frames>>

Next == CheckConflicts \/ FindFreeSlots \/ Return

Spec == Init /\ [][Next]_vars

----------------------------------------------------------------------------
(* The Streamlit application (src/ui_app.py).  Every click reruns the      *)
(* script from its top; a button returns True only in the run its own      *)
(* click has started.  A run is cut where it calls the provider: between   *)
(* two of its provider calls the runs of other sessions may call it too.   *)

\* An entry of the list get_upcoming_events returns.
UpcomingEntry(event) == [id |-> event.id, start |-> event.start, end |-> event.end]

RECURSIVE CollectUpcoming(_)
CollectUpcoming(events) ==
    IF events = <<>> THEN <<>>
    ELSE IF HasDateTime(Head(events))
         THEN <<UpcomingEntry(Head(events))>> \o CollectUpcoming(Tail(events))
         ELSE CollectUpcoming(Tail(events))

\* GoogleCalendarAPI.get_upcoming_events: the timed events of the next seven
\* days, which hold the modelled day; [] when the listing fails.
GetUpcomingEventsRet(cal, net) ==
    IF ~ListAnswered(net, 0 - 1, MaxTime + 2) THEN <<>>
    ELSE CollectUpcoming(ListEvents(cal, 0 - 1, MaxTime + 2))

\* The cached get_upcoming_events of show_upcoming_events: the provider is
\* asked only when the cache holds no value.
CachedUpcoming(cache, cal, net) ==
    IF cache.filled THEN cache
    ELSE [filled |-> TRUE, events |-> GetUpcomingEventsRet(cal, net)]

\* The buttons of the page a session shows.
ButtonsShown(session) ==
    {"extract", "schedule", "clear", "refresh"}
        \cup (IF session.conflict_shown
              THEN {"get_suggestions", "schedule_anyway"} ELSE {})

\* st.button(...) of a run started by the click on button clicked.
ButtonValue(clicked, button) == clicked = button

\* schedule_btn and st.session_state.last_extraction.
ScheduleEventCalled(clicked, last_extraction) ==
    ButtonValue(clicked, "schedule") /\ last_extraction.present

\* The call of force_schedule_event, inside schedule_event under
\* has_conflicts and the 'Schedule Anyway' button.
ForceScheduleEventCalled(clicked, last_extraction, has_conflicts) ==
    /\ ScheduleEventCalled(clicked, last_extraction)
    /\ has_conflicts
    /\ ButtonValue(clicked, "schedule_anyway")

\* GoogleCalendarAPI.create_event: events().insert, answered or not.  The
\* new event gets a fresh id and its place in the listing order.
CreateEventRet(cal, event_data, net) ==
    IF net = "ok"
    THEN [success |-> TRUE, result |-> Len(cal) + 1,
          calendar |-> InsertByStart(Event(Len(cal) + 1, TRUE,
                                           FromIso(event_data.start_time),
                                           FromIso(event_data.end_time)), cal)]
    ELSE [success |-> FALSE, result |-> 0, calendar |-> cal]

\* Mutant of CreatedEntry: the entry does not get the returned event_id.
CreatedEntryWithoutId(event_data, event_id) ==
    [start_time |-> event_data.start_time, end_time |-> event_data.end_time,
     event_id |-> 0]

\* event_data with its event_id, as appended to events_created.
CreatedEntry(event_data, event_id) ==
    [start_time |-> event_data.start_time, end_time |-> event_data.end_time,
     event_id |-> event_id]

\* The run is over: its locals are gone, the page is shown.
EndRun(session) ==
    [session EXCEPT !.pc = "idle", !.clicked = "none", !.buffer_time = 0,
                    !.conflicts = <<>>, !.forced = FALSE]

\* The run has reached show_upcoming_events, the last part of the script
\* that changes state: with a cached value the run is over, else it is
\* about to call the provider (pc "upcoming").
ToUpcoming(session, cache) ==
    IF cache.filled THEN EndRun(session)
    ELSE [EndRun(session) EXCEPT !.pc = "upcoming"]

\* What the handlers at the top of the script make of the session: Clear
\* (lines 214-217), Extract Info (lines 219-228).
TopOfScript(session, clicked, extraction) ==
    IF ButtonValue(clicked, "clear")
    THEN [session EXCEPT !.last_extraction = NoExtraction]
    ELSE IF ButtonValue(clicked, "extract") /\ extraction.present
         THEN [session EXCEPT !.last_extraction = extraction]
         ELSE session

\* The run a click on a button of the page starts: the script runs from
\* its top up to the call of check_conflicts in schedule_event or, when
\* schedule_event is not called, to show_upcoming_events.
\* extraction: what extract_event_info returns (NoExtraction: a failure);
\* buffer_time: the slider's value.
RunScript(s, clicked) ==
    /\ sess[s].pc = "idle"
    /\ clicked \in ButtonsShown(sess[s])
    /\ \E extraction \in (IF clicked = "extract"
                          THEN EventData \cup {NoExtraction}
                          ELSE {NoExtraction}),
          buffer_time \in (IF clicked = "schedule" THEN 0..MaxBuffer ELSE {0}) :
        LET top == [TopOfScript(sess[s], clicked, extraction)
                        EXCEPT !.conflict_shown = FALSE]
            cache == IF ButtonValue(clicked, "refresh")
                     THEN EmptyCache ELSE upcoming_cache
        IN  IF ScheduleEventCalled(clicked, top.last_extraction)
            THEN /\ sess' = [sess EXCEPT ![s] =
                                [top EXCEPT !.pc = "check",
                                            !.clicked = clicked,
                                            !.buffer_time = buffer_time]]
                 /\ UNCHANGED upcoming_cache
            ELSE /\ sess' = [sess EXCEPT ![s] = ToUpcoming(top, cache)]
                 /\ upcoming_cache' = cache
    /\ UNCHANGED <<calendar, call, ret, inv, frames>>

\* The clicks on the buttons of the page.
ClickExtract(s) == RunScript(s, "extract")

ClickSchedule(s) == RunScript(s, "schedule")

ClickClear(s) == RunScript(s, "clear")

ClickRefresh(s) == RunScript(s, "refresh")

\* The clicks on the two buttons schedule_event has shown with a conflict.
ClickGetSuggestions(s) == RunScript(s, "get_suggestions")

ClickScheduleAnyway(s) == RunScript(s, "schedule_anyway")

\* schedule_event up to its branch on has_conflicts (lines 298-306): on a
\* conflict the page shows it with the two buttons and the run goes on to
\* show_upcoming_events, unless the run calls force_schedule_event; else
\* the run goes on to create_event.
CheckStep(s) ==
    /\ sess[s].pc = "check"
    /\ \E net \in Nets :
        LET event_data == sess[s].last_extraction
            r == CheckConflictsRet(calendar, event_data.start_time,
                                   event_data.end_time, sess[s].buffer_time, net)
        IN  IF r.has_conflicts
               /\ ~ForceScheduleEventCalled(sess[s].clicked, event_data,
                                            r.has_conflicts)
            THEN /\ sess' = [sess EXCEPT ![s] =
                                ToUpcoming([sess[s] EXCEPT !.conflict_shown = TRUE],
                                           upcoming_cache)]
                 /\ UNCHANGED upcoming_cache
            ELSE /\ sess' = [sess EXCEPT ![s] =
                                [@ EXCEPT !.pc = "create",
                                          !.conflicts = r.conflicts,
                                          !.forced = r.has_conflicts]]
                 /\ UNCHANGED upcoming_cache
    /\ UNCHANGED <<calendar, call, ret, inv, frames>>

\* create_event and what follows it in schedule_event (lines 333-351) and
\* in force_schedule_event (lines 442-452); the run goes on to
\* show_upcoming_events.  The provider holds at most MaxEvents events.
CreateStep(s) ==
    /\ sess[s].pc = "create"
    /\ \E net \in Nets :
        LET event_data == sess[s].last_extraction
            r == CreateEventRet(calendar, event_data, net)
        IN  /\ r.success => Len(calendar) < MaxEvents
            /\ calendar' = r.calendar
            /\ IF r.success
               THEN /\ sess' = [sess EXCEPT ![s] =
                                   ToUpcoming(
                                       [sess[s] EXCEPT
                                           !.events_created =
                                               Append(@, CreatedEntry(event_data,
                                                                      r.result)),
                                           !.last_extraction = NoExtraction],
                                       EmptyCache)]
                    /\ upcoming_cache' = EmptyCache
               ELSE /\ sess' = [sess EXCEPT ![s] =
                                   ToUpcoming(sess[s], upcoming_cache)]
                    /\ UNCHANGED upcoming_cache
    /\ UNCHANGED <<call, ret, inv, frames>>

\* show_upcoming_events of a run that found no cached value: the cached
\* get_upcoming_events asks the provider, unless the run of another session
\* has filled the cache meanwhile; the run is over.
UpcomingStep(s) ==
    /\ sess[s].pc = "upcoming"
    /\ \E net \in Nets :
        upcoming_cache' = CachedUpcoming(upcoming_cache, calendar, net)
    /\ sess' = [sess EXCEPT ![s] = EndRun(sess[s])]
    /\ UNCHANGED <<calendar, call, ret, inv, frames>>

\* The cached value is older than its ttl of 300 seconds.
ExpireCache ==
    /\ upcoming_cache.filled
    /\ upcoming_cache' = EmptyCache
    /\ UNCHANGED <<calendar, call, ret, sess, inv, frames>>

\* The provider has room for one more event; nobody has opened the page.
InitUI ==
    /\ calendar \in {c \in Calendars : Len(c) < MaxEvents}
    /\ call = NoCall
    /\ ret = NoRet
    /\ NoUI
    /\ NoInvocations

NextUI ==
    \/ ExpireCache
    \/ \E s \in Sessions :
        \/ ClickExtract(s) \/ ClickSchedule(s) \/ ClickClear(s)
        \/ ClickRefresh(s) \/ ClickGetSuggestions(s) \/ ClickScheduleAnyway(s)
        \/ CheckStep(s) \/ CreateStep(s) \/ UpcomingStep(s)

SpecUI == InitUI /\ [][NextUI]_vars

----------------------------------------------------------------------------
(* The two queries called on the API object of a session in use.           *)

\* A session that has created the event of its first extraction and holds a
\* second extraction.
UsedSession ==
    [FreshSession EXCEPT
        !.last_extraction = Extraction(0, 1),
        !.events_created = <<CreatedEntry(Extraction(0, 1), 1)>>]

\* The calendar is any calendar; either nobody has opened the page, or one
\* session is in use and the upcoming events are cached.
InitFrame ==
    /\ calendar \in Calendars
    /\ call = NoCall
    /\ ret = NoRet
    /\ \/ NoUI
       \/ /\ sess = [s \in Sessions |-> IF s = 1 THEN UsedSession ELSE FreshSession]
          /\ upcoming_cache = CachedUpcoming(EmptyCache, calendar, "ok")
    /\ NoInvocations

SpecFrame == InitFrame /\ [][Next]_vars

----------------------------------------------------------------------------
(* Invocations of the two queries that run at the same time, each in the   *)
(* thread of its script run.  An invocation is cut after its provider call *)
(* and after each round of its loop; it ends with the code after the loop. *)

\* Mutant of FrameOf: the locals are kept in one place for all invocations.
FrameShared(i) == 1

\* Where invocation i keeps events, current_time, free_slots and conflicts:
\* they are local variables of the call, one set for each invocation.
FrameOf(i) == i

\* The arguments of the concurrent invocations: candidates and windows with
\* start < end or a text that does not parse, buffers >= 0, durations > 0.
ConcurrentCalls ==
    {[NoCall EXCEPT !.op = "check_conflicts", !.start_time = Iso(te[1]),
                    !.end_time = Iso(te[2]), !.buffer_minutes = b] :
        te \in {tt \in Times \X Times : tt[1] < tt[2]}, b \in 0..MaxBuffer}
    \cup {[NoCall EXCEPT !.op = "check_conflicts", !.end_time = Iso(MaxTime)]}
    \cup {[NoCall EXCEPT !.op = "find_free_slots", !.date = Iso(0),
                         !.work_start_hour = te[1], !.work_end_hour = te[2],
                         !.duration_minutes = d, !.net = n] :
             te \in {tt \in Times \X Times : tt[1] < tt[2]},
             d \in 1..MaxDuration, n \in Nets}
    \cup {[NoCall EXCEPT !.op = "find_free_slots", !.duration_minutes = 1]}

\* The invocation returns result.
ReturnedWith(invocation, result) ==
    [invocation EXCEPT !.pc = "done", !.result = result]

\* The call of a query up to its loop: the arguments are parsed, the
\* provider lists the events, the locals are set.  A text that does not
\* parse or a listing that fails ends the call in its except branch.
Invoke(i) ==
    /\ inv[i].pc = "none"
    /\ \E c \in ConcurrentCalls :
        LET parsed == IF c.op = "check_conflicts"
                      THEN Parses(c.start_time) /\ Parses(c.end_time)
                      ELSE Parses(c.date)
            timeMin == IF c.op = "check_conflicts"
                       THEN BufferStart(FromIso(c.start_time), c.buffer_minutes)
                       ELSE c.work_start_hour
            timeMax == IF c.op = "check_conflicts"
                       THEN BufferEnd(FromIso(c.end_time), c.buffer_minutes)
                       ELSE c.work_end_hour
            failed == IF c.op = "check_conflicts"
                      THEN [NoRet EXCEPT !.conflicts = <<ErrorEntry>>]
                      ELSE NoRet
        IN  IF parsed /\ ListAnswered(c.net, timeMin, timeMax)
            THEN /\ inv' = [inv EXCEPT ![i] = [NoInv EXCEPT !.pc = "loop",
                                                            !.call = c]]
                 /\ frames' = [frames EXCEPT ![FrameOf(i)] =
                                  [NoFrame EXCEPT
                                      !.events = ListEvents(calendar, timeMin, timeMax),
                                      !.current_time = timeMin]]
            ELSE /\ inv' = [inv EXCEPT ![i] =
                               ReturnedWith([NoInv EXCEPT !.call = c], failed)]
                 /\ UNCHANGED frames
    /\ UNCHANGED <<calendar, call, ret, sess, upcoming_cache>>

\* One round of the loop over the listed events.
LoopStep(i) ==
    /\ inv[i].pc = "loop"
    /\ frames[FrameOf(i)].events # <<>>
    /\ LET f == frames[FrameOf(i)]
           event == Head(f.events)
           rest == [f EXCEPT !.events = Tail(f.events)]
       IN  frames' = [frames EXCEPT ![FrameOf(i)] =
               IF ~HasDateTime(event) THEN rest
               ELSE IF inv[i].call.op = "check_conflicts"
                    THEN [rest EXCEPT !.conflicts = Append(@, ConflictEntry(event))]
                    ELSE [rest EXCEPT
                            !.free_slots =
                                IF FitsBetween(f.current_time, event.start,
                                               inv[i].call.duration_minutes)
                                THEN Append(@, Slot(f.current_time, event.start))
                                ELSE @,
                            !.current_time = AdvanceCursor(@, event.end)]]
    /\ UNCHANGED <<calendar, call, ret, sess, upcoming_cache, inv>>

\* The code after the loop, and the return, with which the locals end.
FinishStep(i) ==
    /\ inv[i].pc = "loop"
    /\ frames[FrameOf(i)].events = <<>>
    /\ LET f == frames[FrameOf(i)]
           c == inv[i].call
       IN  inv' = [inv EXCEPT ![i] = ReturnedWith(@,
               IF c.op = "check_conflicts"
               THEN [NoRet EXCEPT !.has_conflicts = Len(f.conflicts) > 0,
                                  !.conflicts = f.conflicts]
               ELSE [NoRet EXCEPT !.free_slots =
                        TrailingSlot(f, c.work_end_hour, c.duration_minutes)])]
    /\ frames' = [frames EXCEPT ![FrameOf(i)] = NoFrame]
    /\ UNCHANGED <<calendar, call, ret, sess, upcoming_cache>>

\* The caller has taken the result.
Collect(i) ==
    /\ inv[i].pc = "done"
    /\ inv' = [inv EXCEPT ![i] = NoInv]
    /\ UNCHANGED <<calendar, call, ret, sess, upcoming_cache, frames>>

NextConcurrent ==
    \E i \in Invocations : Invoke(i) \/ LoopStep(i) \/ FinishStep(i) \/ Collect(i)

\* The calendar holds MaxEvents events, none of them empty; no query runs.
InitConcurrent ==
    /\ calendar \in {c \in CalendarsOfLen(MaxEvents) :
                         \A k \in 1..Len(c) : c[k].start < c[k].end}
    /\ call = NoCall
    /\ ret = NoRet
    /\ NoUI
    /\ NoInvocations

SpecConcurrent == InitConcurrent /\ [][NextConcurrent]_vars

----------------------------------------------------------------------------
(* GrokNLP.extract_event_info (src/grok_nlp.py) and the Extract Info       *)
(* handler of the page.                                                    *)

RequiredFields == {"title", "start_time", "end_time", "duration_minutes"}

\* The replies of the model.  The times of an object matter only when it
\* holds every required field and no error.  A value of start_time or
\* end_time that is no string makes fromisoformat raise TypeError, which
\* ends like a text that does not parse: in an except branch.
Replies ==
    {[NoReply EXCEPT !.kind = k] : k \in {"none", "text", "scalar"}}
    \cup {[NoReply EXCEPT !.kind = k, !.names = n] :
             k \in {"object", "array", "string"},
             n \in SUBSET (RequiredFields \cup {"error"})}
    \cup {[kind |-> "object", names |-> RequiredFields,
           start_time |-> st, end_time |-> et] : st \in Texts, et \in Texts}

\* {"error": "..."} as the code builds it.
ErrorMapping == [NoResult EXCEPT !.mapping = TRUE, !.error = TRUE]

\* event_data, what json.loads made of the reply, returned as it is.
ReturnedReply(reply) ==
    [mapping |-> reply.kind = "object", error |-> "error" \in reply.names,
     start_time |-> reply.start_time, end_time |-> reply.end_time]

\* The pair extract_event_info returns.  'in' and 'not in' are key tests on
\* an object, membership on an array, substring tests on a string and raise
\* TypeError on a scalar; event_data['start_time'] raises TypeError on an
\* array and a string.  Every exception ends in an except branch.
ExtractEventInfoRet(reply) ==
    IF reply.kind = "none" THEN [success |-> FALSE, result |-> ErrorMapping]
    ELSE IF reply.kind = "text" THEN [success |-> FALSE, result |-> ErrorMapping]
    ELSE IF reply.kind = "scalar" THEN [success |-> FALSE, result |-> ErrorMapping]
    ELSE IF "error" \in reply.names
         THEN [success |-> FALSE, result |-> ReturnedReply(reply)]
    ELSE IF ~(RequiredFields \subseteq reply.names)
         THEN [success |-> FALSE, result |-> ErrorMapping]
    ELSE IF reply.kind # "object"
         THEN [success |-> FALSE, result |-> ErrorMapping]
    ELSE IF ~(Parses(reply.start_time) /\ Parses(reply.end_time))
         THEN [success |-> FALSE, result |-> ErrorMapping]
    ELSE [success |-> TRUE, result |-> ReturnedReply(reply)]

\* The click on Extract Info with a text typed in: extract_event_info is
\* called and, on success, its result becomes last_extraction.
ExtractInfo(s) ==
    /\ call.op = "none"
    /\ sess[s].pc = "idle"
    /\ \E reply \in Replies :
        LET r == ExtractEventInfoRet(reply)
            extraction == IF r.success
                          THEN Extraction(FromIso(r.result.start_time),
                                          FromIso(r.result.end_time))
                          ELSE NoExtraction
        IN  /\ call' = [NoCall EXCEPT !.op = "extract_event_info",
                                      !.reply = reply]
            /\ ret' = [NoRet EXCEPT !.success = r.success, !.result = r.result]
            /\ sess' = [sess EXCEPT ![s] = TopOfScript(@, "extract", extraction)]
    /\ UNCHANGED <<calendar, upcoming_cache, inv, frames>>

\* Nobody has opened the page; the calendar is empty.
InitExtract ==
    /\ calendar = <<>>
    /\ call = NoCall
    /\ ret = NoRet
    /\ NoUI
    /\ NoInvocations

NextExtract == Return \/ \E s \in Sessions : ExtractInfo(s)

SpecExtract == InitExtract /\ [][NextExtract]_vars

----------------------------------------------------------------------------
(* show_free_slots (src/ui_app.py), as a function: the page never calls it *)
(* (its button is nested in the run of another button).  A call is cut     *)
(* where it calls the provider: find_free_slots, then after the click on   *)
(* 'Use Slot' the check_conflicts and the create_event of schedule_event.  *)
(* call holds the arguments and the settings of the session, ret what the  *)
(* provider calls have returned.                                           *)

\* free_slots[:5]: the number of slots shown.
SlotsShown == 5

\* free_slots[:5].
ShownSlots(free_slots) ==
    SubSeq(free_slots, 1, IF Len(free_slots) < SlotsShown
                          THEN Len(free_slots) ELSE SlotsShown)

\* slot_end = slot_start + timedelta(minutes=event_data['duration_minutes']).
SlotEnd(slot, duration_minutes) == slot.start + duration_minutes

\* show_free_slots(event_data) up to the slots it shows.  The date is the
\* day of event_data's start_time, which parses; work_start and work_end
\* are the hours of the time inputs, buffer_time the slider's value.
ShowFreeSlots(s) ==
    /\ call.op = "none"
    /\ sess[s].pc = "idle"
    /\ \E duration_minutes \in Durations, work_start \in Times,
          work_end \in Times, buffer_time \in 0..MaxBuffer, net \in Nets :
        /\ call' = [NoCall EXCEPT !.op = "show_free_slots",
                                  !.date = Iso(0),
                                  !.duration_minutes = duration_minutes,
                                  !.work_start_hour = work_start,
                                  !.work_end_hour = work_end,
                                  !.buffer_minutes = buffer_time,
                                  !.net = net]
        /\ ret' = [NoRet EXCEPT !.free_slots =
                       ShownSlots(FindFreeSlotsRet(calendar, Iso(0),
                                                   duration_minutes, work_start,
                                                   work_end, net))]
    /\ sess' = [sess EXCEPT ![s] = [@ EXCEPT !.pc = "slots",
                                             !.buffer_time = call'.buffer_minutes]]
    /\ UNCHANGED <<calendar, upcoming_cache, inv, frames>>

\* The click on 'Use Slot i': updated_event lies at the start of the slot
\* and schedule_event(updated_event) calls check_conflicts with the
\* session's buffer_time.
UseSlot(s) ==
    /\ sess[s].pc = "slots"
    /\ \E i \in 1..Len(ret.free_slots), net \in Nets :
        LET slot == ret.free_slots[i]
            start_time == Iso(slot.start)
            end_time == Iso(SlotEnd(slot, call.duration_minutes))
            r == CheckConflictsRet(calendar, start_time, end_time,
                                   sess[s].buffer_time, net)
        IN  /\ call' = [call EXCEPT !.op = "schedule_event",
                                    !.start_time = start_time,
                                    !.end_time = end_time,
                                    !.net = net]
            /\ ret' = [ret EXCEPT !.has_conflicts = r.has_conflicts,
                                  !.conflicts = r.conflicts]
    /\ sess' = [sess EXCEPT ![s] = [@ EXCEPT !.pc = "check"]]
    /\ UNCHANGED <<calendar, upcoming_cache, inv, frames>>

\* schedule_event(updated_event) after a check that found no conflict:
\* create_event and what follows it (lines 331-351).  The provider rejects
\* an event that ends before it starts and holds at most MaxEvents events.
UseSlotCreate(s) ==
    /\ sess[s].pc = "check"
    /\ call.op = "schedule_event"
    /\ ~ret.has_conflicts
    /\ \E net \in Nets :
        LET event_data == Extraction(FromIso(call.start_time),
                                     FromIso(call.end_time))
            accepted == FromIso(call.start_time) <= FromIso(call.end_time)
            r == CreateEventRet(calendar, event_data,
                                IF accepted THEN net ELSE "error")
        IN  /\ r.success => Len(calendar) < MaxEvents
            /\ calendar' = r.calendar
            /\ IF r.success
               THEN /\ sess' = [sess EXCEPT ![s] =
                                   EndRun([sess[s] EXCEPT
                                       !.events_created =
                                           Append(@, CreatedEntry(event_data,
                                                                  r.result)),
                                       !.last_extraction = NoExtraction])]
                    /\ upcoming_cache' = EmptyCache
               ELSE /\ sess' = [sess EXCEPT ![s] = EndRun(sess[s])]
                    /\ UNCHANGED upcoming_cache
    /\ call' = NoCall
    /\ ret' = NoRet
    /\ UNCHANGED <<inv, frames>>

\* show_free_slots returns: no 'Use Slot' was clicked, or schedule_event
\* has shown the conflicts it found.
SlotsReturn(s) ==
    /\ \/ sess[s].pc = "slots"
       \/ sess[s].pc = "check" /\ call.op = "schedule_event" /\ ret.has_conflicts
    /\ sess' = [sess EXCEPT ![s] = EndRun(sess[s])]
    /\ call' = NoCall
    /\ ret' = NoRet
    /\ UNCHANGED <<calendar, upcoming_cache, inv, frames>>

NextSlots ==
    \E s \in Sessions :
        ShowFreeSlots(s) \/ UseSlot(s) \/ UseSlotCreate(s) \/ SlotsReturn(s)

SpecSlots == Init /\ [][NextSlots]_vars

----------------------------------------------------------------------------
(* Properties of check_conflicts.                                          *)

\* Half-open overlap of [s1, e1) and [s2, e2).
Overlaps(s1, e1, s2, e2) == s1 < e2 /\ e1 > s2

TimedEvents(cal) == SelectSeq(cal, LAMBDA e : e.timed)

\* check_conflicts has returned for a candidate interval (start < end), a
\* buffer >= 0 and the busy intervals the provider has listed.
CheckedCandidate ==
    /\ call.op = "check_conflicts"
    /\ Parses(call.start_time) /\ Parses(call.end_time)
    /\ FromIso(call.start_time) < FromIso(call.end_time)
    /\ call.buffer_minutes >= 0
    /\ call.net = "ok"

\* Event e is in the returned conflict list.
Reported(e) ==
    \E j \in 1..Len(ret.conflicts) : ret.conflicts[j] = ConflictEntry(e)

\* Event e overlaps the candidate of the call padded by the buffer.
OverlapsPadded(e) ==
    Overlaps(e.start, e.end,
             FromIso(call.start_time) - call.buffer_minutes,
             FromIso(call.end_time) + call.buffer_minutes)

\* C1: for every candidate interval, buffer >= 0 and busy list, the conflict
\* list contains a timed busy interval b if and only if
\* b.start < candidate.end + buffer and b.end > candidate.start - buffer.
C1_ConflictIffPaddedOverlap ==
    CheckedCandidate =>
        \A i \in 1..Len(calendar) :
            calendar[i].timed =>
                (Reported(calendar[i]) <=> OverlapsPadded(calendar[i]))

\* C1 witness: a call with a positive buffer where one timed event is a
\* conflict only through the padding and another timed event is none.
C1_Witness ==
    /\ CheckedCandidate
    /\ call.buffer_minutes > 0
    /\ \E i, j \in 1..Len(calendar) :
        /\ calendar[i].timed /\ calendar[j].timed
        /\ Reported(calendar[i])
        /\ ~Overlaps(calendar[i].start, calendar[i].end,
                     FromIso(call.start_time), FromIso(call.end_time))
        /\ ~Reported(calendar[j])

\* The entries of the timed events of a sequence of events, in its order.
EntriesOf(events) ==
    [j \in 1..Len(TimedEvents(events)) |-> ConflictEntry(TimedEvents(events)[j])]

\* The timed events the provider lists for the padded candidate of the call,
\* in listed order: the input list, cut to its conflicting intervals.
ConflictingListed ==
    SelectSeq(OrderByStartTime(TimedEvents(calendar)), OverlapsPadded)

\* C2: the returned boolean is true exactly when the returned conflict list
\* is non-empty; the list holds every conflicting busy interval in input
\* order; a candidate disjoint from every busy interval gives (false, []).
C2_BooleanIffNonEmptyList ==
    call.op = "check_conflicts" =>
        /\ ret.has_conflicts <=> (ret.conflicts # <<>>)
        /\ CheckedCandidate => ret.conflicts = EntriesOf(ConflictingListed)
        /\ (CheckedCandidate /\ ConflictingListed = <<>>) =>
               (~ret.has_conflicts /\ ret.conflicts = <<>>)

\* What holds of the calls that list the busy intervals of a candidate
\* interval: there the boolean and the list agree.
AgreeWhenListed ==
    CheckedCandidate =>
        /\ ret.has_conflicts <=> (ret.conflicts # <<>>)
        /\ ret.conflicts = EntriesOf(ConflictingListed)

----------------------------------------------------------------------------
(* Properties of find_free_slots.                                          *)

\* find_free_slots has returned.
FoundSlots == call.op = "find_free_slots"

\* find_free_slots has returned for a window (start < end) of a date that
\* parses and the busy intervals the provider has listed.
SweptWindow ==
    /\ FoundSlots
    /\ Parses(call.date)
    /\ call.work_start_hour < call.work_end_hour
    /\ call.net = "ok"

\* C3: for every window, min_duration > 0 and timed busy intervals, the
\* returned slots are in chronological order, pairwise non-overlapping and
\* each at least min_duration long.
C3_SlotsOrderedDisjointLongEnough ==
    (FoundSlots /\ call.duration_minutes > 0) =>
        /\ \A i \in 1..Len(ret.free_slots) :
               ret.free_slots[i].end - ret.free_slots[i].start
                   >= call.duration_minutes
        /\ \A i \in 1..(Len(ret.free_slots) - 1) :
               /\ ret.free_slots[i].start < ret.free_slots[i + 1].start
               /\ ret.free_slots[i].end <= ret.free_slots[i + 1].start

\* C3 witness: two overlapping busy intervals between two returned slots.
C3_Witness ==
    /\ SweptWindow /\ call.duration_minutes > 0
    /\ Len(ret.free_slots) >= 2
    /\ \E i, j \in 1..Len(calendar) :
        /\ i # j /\ calendar[i].timed /\ calendar[j].timed
        /\ Overlaps(calendar[i].start, calendar[i].end,
                    calendar[j].start, calendar[j].end)

\* The sequences that hold the events of cal in some order.
Orderings(cal) ==
    {[i \in 1..Len(cal) |-> cal[f[i]]] : f \in Permutations(1..Len(cal))}

\* No slot of slots overlaps a timed event of the calendar.
AvoidBusy(slots) ==
    \A i \in 1..Len(slots) : \A k \in 1..Len(calendar) :
        calendar[k].timed =>
            ~Overlaps(slots[i].start, slots[i].end,
                      calendar[k].start, calendar[k].end)

\* C4: no returned slot overlaps a timed busy interval of the input, in
\* whatever order the intervals are supplied and however they overlap.
C4_SlotsAvoidBusy ==
    FoundSlots =>
        /\ AvoidBusy(ret.free_slots)
        /\ \A busy \in Orderings(calendar) :
               AvoidBusy(FindFreeSlotsRet(busy, call.date, call.duration_minutes,
                                          call.work_start_hour,
                                          call.work_end_hour, call.net))

\* C4 witness: a slot is returned although one busy interval starts inside
\* another.
C4_Witness ==
    /\ SweptWindow /\ call.duration_minutes > 0
    /\ ret.free_slots # <<>>
    /\ \E i, j \in 1..Len(calendar) :
        /\ calendar[i].timed /\ calendar[j].timed
        /\ calendar[i].start < calendar[j].start
        /\ calendar[j].start < calendar[i].end

\* [a, b) is free: no timed event overlaps it.
FreeOfBusy(a, b) ==
    \A k \in 1..Len(calendar) :
        calendar[k].timed =>
            ~Overlaps(a, b, calendar[k].start, calendar[k].end)

\* [a, b) is a maximal free sub-interval of the window of the call.
MaximalFree(a, b) ==
    /\ call.work_start_hour <= a /\ a < b /\ b <= call.work_end_hour
    /\ FreeOfBusy(a, b)
    /\ a = call.work_start_hour \/ ~FreeOfBusy(a - 1, b)
    /\ b = call.work_end_hour \/ ~FreeOfBusy(a, b + 1)

\* [a, b) is one of the returned slots.
Returned(a, b) ==
    \E i \in 1..Len(ret.free_slots) : ret.free_slots[i] = Slot(a, b)

\* C5: every maximal sub-interval of the window that intersects no busy
\* interval and is at least min_duration long is returned as a slot.
C5_EveryLongEnoughGapReturned ==
    (SweptWindow /\ call.duration_minutes > 0) =>
        \A a \in Times, b \in Times :
            (MaximalFree(a, b) /\ b - a >= call.duration_minutes) =>
                Returned(a, b)

\* C5 witness: the gap between two busy intervals is returned.
C5_Witness ==
    /\ SweptWindow /\ call.duration_minutes > 0
    /\ \E a \in Times, b \in Times :
        /\ MaximalFree(a, b) /\ Returned(a, b)
        /\ a > call.work_start_hour /\ b < call.work_end_hour

\* The cursor history of the call never decreases.
CursorMonotone ==
    \A i \in 1..(Len(ret.cursors) - 1) : ret.cursors[i] <= ret.cursors[i + 1]

\* C6: every returned slot lies inside the window, also when a busy interval
\* starts before the window or ends after it; the cursor never moves back.
C6_SlotsInsideWindow ==
    FoundSlots =>
        /\ CursorMonotone
        /\ \A i \in 1..Len(ret.free_slots) :
               /\ call.work_start_hour <= ret.free_slots[i].start
               /\ ret.free_slots[i].end <= call.work_end_hour

\* C6 witness: a slot is returned from a window that a busy interval enters
\* from before its start or leaves after its end.
C6_Witness ==
    /\ SweptWindow /\ call.duration_minutes > 0
    /\ ret.free_slots # <<>>
    /\ \E i \in 1..Len(calendar) :
        /\ calendar[i].timed
        /\ \/ /\ calendar[i].start < call.work_start_hour
              /\ calendar[i].end > call.work_start_hour
           \/ /\ calendar[i].end > call.work_end_hour
              /\ calendar[i].start < call.work_end_hour

\* The timed busy intervals in the order the sweep of the call takes them.
Processed ==
    TimedEvents(ListEvents(calendar, call.work_start_hour, call.work_end_hour))

\* The sweep takes the intervals by ascending start.
ProcessedByStart ==
    \A i \in 1..(Len(Processed) - 1) :
        Processed[i].start <= Processed[i + 1].start

\* The sweep takes intervals of equal start by ascending end.
TiesByEnd ==
    \A i \in 1..(Len(Processed) - 1) :
        Processed[i].start = Processed[i + 1].start =>
            Processed[i].end <= Processed[i + 1].end

\* Every order of the same busy intervals gives the returned slots.
SameSlotsInAnyOrder ==
    \A busy \in Orderings(calendar) :
        FindFreeSlotsRet(busy, call.date, call.duration_minutes,
                         call.work_start_hour, call.work_end_hour, call.net)
            = ret.free_slots

\* C7 as stated, for min_duration > 0: the busy intervals are processed by
\* ascending start, ties by ascending end, whatever order they are supplied
\* in, so every permutation of the busy list gives the same slots.
C7_TiesByAscendingEnd ==
    (SweptWindow /\ call.duration_minutes > 0) =>
        (ProcessedByStart /\ TiesByEnd /\ SameSlotsInAnyOrder)

\* C7 amended: the busy intervals are processed by ascending start, those of
\* equal start in the order the provider lists them; for min_duration > 0
\* every permutation of the busy list gives the same slots.
C7_SameSlotsForEveryPermutation ==
    (FoundSlots /\ call.duration_minutes > 0) =>
        /\ SweptWindow => ProcessedByStart
        /\ SameSlotsInAnyOrder

\* C7 witness: slots are returned for two busy intervals of equal start that
\* the provider lists with the longer one first.
C7_Witness ==
    /\ SweptWindow /\ call.duration_minutes > 0
    /\ ret.free_slots # <<>>
    /\ Len(Processed) >= 2
    /\ Processed[1].start = Processed[2].start
    /\ Processed[1].end > Processed[2].end
    /\ Processed[2].end > call.work_start_hour

----------------------------------------------------------------------------
(* All-day entries.                                                        *)

\* C8: an all-day entry never appears in the conflict list and never makes
\* the boolean true, and adding or removing all-day entries leaves the
\* output of find_free_slots unchanged.
C8_AllDayEntriesIgnored ==
    /\ call.op = "check_conflicts" =>
        /\ \A j \in 1..Len(ret.conflicts) :
               ~ret.conflicts[j].error =>
                   \E i \in 1..Len(calendar) :
                       /\ calendar[i].timed
                       /\ ret.conflicts[j] = ConflictEntry(calendar[i])
        /\ LET r == CheckConflictsRet(TimedEvents(calendar), call.start_time,
                                      call.end_time, call.buffer_minutes,
                                      call.net)
           IN  /\ ret.has_conflicts = r.has_conflicts
               /\ ret.conflicts = r.conflicts
    /\ FoundSlots =>
        ret.free_slots =
            FindFreeSlotsRet(TimedEvents(calendar), call.date,
                             call.duration_minutes, call.work_start_hour,
                             call.work_end_hour, call.net)

\* C8 witness: the listing holds an all-day entry next to a timed conflict,
\* and only the timed one is reported.
C8_Witness ==
    /\ CheckedCandidate
    /\ ret.has_conflicts /\ Len(ret.conflicts) = 1
    /\ \E i \in 1..Len(calendar) :
        /\ ~calendar[i].timed
        /\ InRange(calendar[i],
                   FromIso(call.start_time) - call.buffer_minutes,
                   FromIso(call.end_time) + call.buffer_minutes)

----------------------------------------------------------------------------
(* Malformed input.                                                        *)

\* The call was given a timestamp that does not parse or an interval with
\* start >= end: the candidate of check_conflicts, the date or the window of
\* find_free_slots.
MalformedInput ==
    \/ /\ call.op = "check_conflicts"
       /\ \/ ~Parses(call.start_time)
          \/ ~Parses(call.end_time)
          \/ FromIso(call.start_time) >= FromIso(call.end_time)
    \/ /\ call.op = "find_free_slots"
       /\ \/ ~Parses(call.date)
          \/ call.work_start_hour >= call.work_end_hour

\* C9: a malformed interval supplied to either operation is surfaced to the
\* caller as a MalformedInterval error; no normal result is returned in its
\* place.
C9_MalformedIntervalSurfaced ==
    MalformedInput => ret.raised = "MalformedInterval"

\* The call was given a negative buffer or a minimum duration <= 0.
InvalidDurationInput ==
    \/ call.op = "check_conflicts" /\ call.buffer_minutes < 0
    \/ call.op = "find_free_slots" /\ call.duration_minutes <= 0

\* C10: a negative buffer or a minimum duration <= 0 is rejected with an
\* InvalidDuration error before any computation; find_free_slots returns no
\* zero-length or negative-length slot for such a duration.
C10_InvalidDurationRejected ==
    InvalidDurationInput =>
        /\ ret.raised = "InvalidDuration"
        /\ \A i \in 1..Len(ret.free_slots) :
               ret.free_slots[i].start < ret.free_slots[i].end

----------------------------------------------------------------------------
(* Scenarios with at most one timed busy interval.                         *)

\* The calendar holds exactly one timed event (all-day entries aside).
OneTimedEvent == Len(TimedEvents(calendar)) = 1

TheTimedEvent == TimedEvents(calendar)[1]

\* The gap between the end of the candidate and the start of the one timed
\* event.
GapAfterCandidate == TheTimedEvent.start - FromIso(call.end_time)

\* C11: for a single busy interval that starts g > 0 after the candidate
\* ends, check_conflicts reports a conflict exactly when buffer > g.
C11_ConflictIffBufferExceedsGap ==
    (CheckedCandidate /\ OneTimedEvent /\ GapAfterCandidate > 0) =>
        (ret.has_conflicts <=> call.buffer_minutes > GapAfterCandidate)

\* C11 witness: the busy interval starts after the candidate ends and the
\* buffer, longer than the gap, makes it a conflict.
C11_Witness ==
    /\ CheckedCandidate /\ OneTimedEvent /\ GapAfterCandidate > 0
    /\ call.buffer_minutes > GapAfterCandidate
    /\ ret.has_conflicts
    /\ ret.conflicts = <<ConflictEntry(TheTimedEvent)>>

\* The slot [start, end) with its length as duration, written out.
SlotOfLength(start, end) ==
    [start |-> start, end |-> end, duration_minutes |-> end - start]

\* C12: when the busy list has no timed interval, find_free_slots returns
\* exactly one slot [window.start, window.end) with duration equal to the
\* window length when that length >= min_duration, and no slot otherwise.
C12_EmptyBusyListOneSlot ==
    (SweptWindow /\ TimedEvents(calendar) = <<>>) =>
        ret.free_slots =
            IF call.work_end_hour - call.work_start_hour >= call.duration_minutes
            THEN <<SlotOfLength(call.work_start_hour, call.work_end_hour)>>
            ELSE <<>>

\* C12 witness: the calendar holds an all-day entry and nothing timed, and
\* the whole window is returned as one slot.
C12_Witness ==
    /\ SweptWindow /\ TimedEvents(calendar) = <<>> /\ calendar # <<>>
    /\ call.duration_minutes > 0
    /\ call.work_end_hour - call.work_start_hour > call.duration_minutes
    /\ Len(ret.free_slots) = 1

\* C13: when a single timed busy interval b has b.start <= window.start and
\* b.end >= window.end, find_free_slots returns the empty sequence for
\* every min_duration > 0.
C13_CoveredWindowNoSlot ==
    (/\ SweptWindow /\ OneTimedEvent
     /\ call.duration_minutes > 0
     /\ TheTimedEvent.start <= call.work_start_hour
     /\ TheTimedEvent.end >= call.work_end_hour) =>
        ret.free_slots = <<>>

\* C13 witness: the busy interval reaches over both ends of a window that
\* is long enough for the duration.
C13_Witness ==
    /\ SweptWindow /\ OneTimedEvent
    /\ call.duration_minutes > 0
    /\ call.work_end_hour - call.work_start_hour >= call.duration_minutes
    /\ TheTimedEvent.start < call.work_start_hour
    /\ TheTimedEvent.end > call.work_end_hour
    /\ ret.free_slots = <<>>

\* C14: for a single timed busy interval [s, e) with
\* window.start <= s < e <= window.end, find_free_slots returns the slot
\* [window.start, s) if s - window.start >= min_duration followed by the
\* slot [e, window.end) if window.end - e >= min_duration, each with
\* duration equal to its end minus its start, and nothing else.
C14_OneBusyIntervalTwoSlots ==
    (/\ SweptWindow /\ OneTimedEvent
     /\ call.work_start_hour <= TheTimedEvent.start
     /\ TheTimedEvent.start < TheTimedEvent.end
     /\ TheTimedEvent.end <= call.work_end_hour) =>
        ret.free_slots =
            (IF TheTimedEvent.start - call.work_start_hour >= call.duration_minutes
             THEN <<SlotOfLength(call.work_start_hour, TheTimedEvent.start)>>
             ELSE <<>>)
            \o
            (IF call.work_end_hour - TheTimedEvent.end >= call.duration_minutes
             THEN <<SlotOfLength(TheTimedEvent.end, call.work_end_hour)>>
             ELSE <<>>)

\* C14 witness: the busy interval lies strictly inside the window and the
\* slot before it and the slot after it are both returned.
C14_Witness ==
    /\ SweptWindow /\ OneTimedEvent
    /\ call.duration_minutes > 0
    /\ call.work_start_hour < TheTimedEvent.start
    /\ TheTimedEvent.start < TheTimedEvent.end
    /\ TheTimedEvent.end < call.work_end_hour
    /\ Len(ret.free_slots) = 2

----------------------------------------------------------------------------
(* Effects of the two queries.                                             *)

\* C15: an invocation of check_conflicts or find_free_slots, whether it
\* succeeds or fails, leaves the calendar's events and the UI session state
\* (events_created, last_extraction, the cached upcoming events) unchanged.
C15_QueriesChangeNothing ==
    [][call'.op \in {"check_conflicts", "find_free_slots"} =>
           /\ calendar' = calendar
           /\ sess' = sess
           /\ upcoming_cache' = upcoming_cache]_vars

\* C15 witness: check_conflicts has failed on a calendar that holds events,
\* called from a session with created events, an extraction and a filled
\* cache.
C15_Witness ==
    /\ call.op = "check_conflicts"
    /\ ret.conflicts = <<ErrorEntry>>
    /\ calendar # <<>>
    /\ sess[1].events_created # <<>>
    /\ sess[1].last_extraction.present
    /\ upcoming_cache.filled /\ upcoming_cache.events # <<>>

----------------------------------------------------------------------------
(* Invocations at the same time.                                           *)

\* What the invocation returns when it runs alone on its arguments.
ResultAlone(c) ==
    IF c.op = "check_conflicts"
    THEN LET r == CheckConflictsRet(calendar, c.start_time, c.end_time,
                                    c.buffer_minutes, c.net)
         IN  [NoRet EXCEPT !.has_conflicts = r.has_conflicts,
                           !.conflicts = r.conflicts]
    ELSE [NoRet EXCEPT !.free_slots =
             FindFreeSlotsRet(calendar, c.date, c.duration_minutes,
                              c.work_start_hour, c.work_end_hour, c.net)]

\* C16: for every interleaving of several invocations of check_conflicts
\* and find_free_slots, each invocation returns the result it would return
\* if run alone on its own inputs.
C16_ConcurrentInvocationsIndependent ==
    \A i \in Invocations :
        inv[i].pc = "done" => inv[i].result = ResultAlone(inv[i].call)

\* C16 witness: an invocation of find_free_slots has returned slots while
\* another invocation with other arguments is in its loop with events
\* still to process.
C16_Witness ==
    \E i \in Invocations, j \in Invocations :
        /\ inv[i].pc = "done" /\ inv[i].call.op = "find_free_slots"
        /\ inv[i].result.free_slots # <<>>
        /\ inv[j].pc = "loop" /\ inv[j].call # inv[i].call
        /\ frames[j].events # <<>>
        /\ Len(frames[j].events) < Len(calendar)

\* C17: two runs of find_free_slots with identical window, busy list and
\* min_duration return identical sequences of slots.
C17_SameInputsSameSlots ==
    \A i \in Invocations, j \in Invocations :
        (/\ inv[i].pc = "done" /\ inv[j].pc = "done"
         /\ inv[i].call.op = "find_free_slots"
         /\ inv[i].call = inv[j].call) =>
            inv[i].result.free_slots = inv[j].result.free_slots

\* C17 witness: two runs with the same arguments have both gone through
\* their loops over a busy list of two timed events and returned slots.
C17_Witness ==
    /\ inv[1].pc = "done" /\ inv[2].pc = "done"
    /\ inv[1].call.op = "find_free_slots"
    /\ inv[1].call = inv[2].call
    /\ inv[1].call.net = "ok"
    /\ Len(TimedEvents(calendar)) = 2
    /\ inv[1].result.free_slots # <<>>

----------------------------------------------------------------------------
(* Scheduling from the page.                                               *)

\* Session s is in schedule_event at its call of create_event, not in
\* force_schedule_event.
AtCreateEvent(s) == sess[s].pc = "create" /\ ~sess[s].forced

\* C18: schedule_event invokes create_event only after check_conflicts has
\* queried the calendar and found no overlapping timed event; if the
\* conflict query fails, schedule_event creates no event.
C18_CreateOnlyAfterAnsweredCheck ==
    \A s \in Sessions :
        AtCreateEvent(s) =>
            \A k \in 1..Len(sess[s].conflicts) : ~sess[s].conflicts[k].error

\* The step is the create_event of session s, not forced, after a conflict
\* check that was answered, and the provider has inserted the event.
CreatesAfterAnsweredCheck(s) ==
    /\ AtCreateEvent(s)
    /\ sess[s].conflicts = <<>>
    /\ sess'[s].pc # "create"
    /\ calendar' # calendar

\* A timed event of the calendar overlaps the extraction of session s
\* padded by the buffer of its run.
OverlapsExtraction(s) ==
    \E k \in 1..Len(calendar) :
        /\ calendar[k].timed
        /\ Overlaps(calendar[k].start, calendar[k].end,
                    FromIso(sess[s].last_extraction.start_time) - sess[s].buffer_time,
                    FromIso(sess[s].last_extraction.end_time) + sess[s].buffer_time)

\* C19: when two sessions run schedule_event in any interleaving, every
\* event created through the non-forced path overlaps, after padding by the
\* buffer, no timed event that is in the calendar when it is created (here
\* for the creations whose conflict check was answered).
C19_NoOverlapAtCreation ==
    [][\A s \in Sessions :
           CreatesAfterAnsweredCheck(s) => ~OverlapsExtraction(s)]_vars

\* C20: whenever schedule_event has reported a conflict and the user clicks
\* 'Schedule Anyway', force_schedule_event runs on the resulting rerun and
\* create_event is invoked.
C20_ScheduleAnywayCreates ==
    [][\A s \in Sessions :
           ClickScheduleAnyway(s) =>
               sess'[s].pc = "create" /\ sess'[s].forced]_vars

----------------------------------------------------------------------------
(* The session state after create_event.                                   *)

\* The step is one in which the create_event of session s returns.
CreateEventReturns(s) == sess[s].pc = "create" /\ sess'[s].pc # "create"

\* The ids of the events of a calendar.
IdsOf(cal) == {cal[k].id : k \in 1..Len(cal)}

\* Session s has appended to events_created exactly one entry: its event
\* data with the id of the event the provider has inserted in this step.
AppendsCreatedEvent(s) ==
    \E k \in 1..Len(calendar') :
        /\ calendar'[k].id \notin IdsOf(calendar)
        /\ sess'[s].events_created =
               Append(sess[s].events_created,
                      [start_time |-> sess[s].last_extraction.start_time,
                       end_time |-> sess[s].last_extraction.end_time,
                       event_id |-> calendar'[k].id])

\* C21: a successful create_event of schedule_event or force_schedule_event
\* appends exactly one entry (the event data with the returned event_id) to
\* events_created, sets last_extraction to None and clears the cache of
\* upcoming events, so that the next get_upcoming_events asks the provider;
\* a failed create_event leaves events_created, last_extraction and the
\* cache unchanged; events_created only grows.
C21_SessionStateAfterCreate ==
    [][\A s \in Sessions :
           /\ CreateEventReturns(s) =>
                  IF calendar' # calendar
                  THEN /\ AppendsCreatedEvent(s)
                       /\ sess'[s].last_extraction = NoExtraction
                       /\ upcoming_cache' = EmptyCache
                       /\ sess'[s].pc = "upcoming"
                  ELSE /\ sess'[s].events_created = sess[s].events_created
                       /\ sess'[s].last_extraction = sess[s].last_extraction
                       /\ upcoming_cache' = upcoming_cache
           /\ (sess[s].pc = "upcoming" /\ sess'[s].pc = "idle"
               /\ ~upcoming_cache.filled) =>
                  /\ upcoming_cache'.filled
                  /\ \E net \in Nets :
                         upcoming_cache'.events = GetUpcomingEventsRet(calendar, net)
           /\ Len(sess'[s].events_created) >= Len(sess[s].events_created)
           /\ SubSeq(sess'[s].events_created, 1, Len(sess[s].events_created))
                  = sess[s].events_created]_vars

\* C21 witness: a session has created two events, the second just now: its
\* extraction is gone, nothing is cached and its run is about to ask the
\* provider for the upcoming events.
C21_Witness ==
    \E s \in Sessions :
        /\ sess[s].pc = "upcoming"
        /\ Len(sess[s].events_created) = 2
        /\ sess[s].events_created[2].event_id \in IdsOf(calendar)
        /\ sess[s].last_extraction = NoExtraction
        /\ upcoming_cache = EmptyCache

----------------------------------------------------------------------------
(* Extraction.                                                             *)

\* The step is the return of a call of extract_event_info.
ExtractReturns == call.op = "none" /\ call'.op = "extract_event_info"

\* The reply is a JSON object with no 'error' key that holds the required
\* fields and whose start_time and end_time parse.
WellFormedReply(reply) ==
    /\ reply.kind = "object"
    /\ "error" \notin reply.names
    /\ RequiredFields \subseteq reply.names
    /\ Parses(reply.start_time) /\ Parses(reply.end_time)

\* C22: extract_event_info never raises; it returns (True, data) only if
\* the reply is a JSON object with no 'error' key that contains title,
\* start_time, end_time and duration_minutes and whose start_time and
\* end_time parse; in every other case it returns (False, r) where r is a
\* mapping containing an 'error' entry, and the UI then leaves
\* last_extraction unchanged.
C22_ExtractionSucceedsOrReturnsErrorMapping ==
    [][ExtractReturns =>
           /\ ret'.raised = "none"
           /\ ret'.success <=> WellFormedReply(call'.reply)
           /\ ~ret'.success =>
                  /\ ret'.result.mapping /\ ret'.result.error
                  /\ \A s \in Sessions :
                         sess'[s].last_extraction = sess[s].last_extraction]_vars

\* What holds of every reply that is not a JSON array or string: the claim
\* of C22.
ErrorMappingUnlessArrayOrString ==
    [][(ExtractReturns /\ call'.reply.kind \notin {"array", "string"}) =>
           /\ ret'.success <=> WellFormedReply(call'.reply)
           /\ ~ret'.success => ret'.result.mapping /\ ret'.result.error]_vars

\* What holds of every reply: success exactly for the well-formed replies,
\* and a failure leaves last_extraction unchanged.
SuccessIffWellFormedReply ==
    [][ExtractReturns =>
           /\ ret'.success <=> WellFormedReply(call'.reply)
           /\ ~ret'.success =>
                  \A s \in Sessions :
                      sess'[s].last_extraction = sess[s].last_extraction]_vars

----------------------------------------------------------------------------
(* The slots of show_free_slots.                                           *)

\* schedule_event of a click on 'Use Slot' has its answer of check_conflicts.
SlotChecked(s) == sess[s].pc = "check" /\ call.op = "schedule_event"

\* C23: every slot offered by show_free_slots can be booked: placing the
\* event at the slot's start for the event's duration_minutes passes the
\* conflict check of schedule_event, with the session's buffer setting,
\* against the same calendar contents that find_free_slots saw.
C23_OfferedSlotPassesConflictCheck ==
    \A s \in Sessions : SlotChecked(s) => ~ret.has_conflicts

\* What holds with a buffer setting of 0 and a positive duration_minutes:
\* the offered slot passes the conflict check.
OfferedSlotPassesUnpaddedCheck ==
    \A s \in Sessions :
        (SlotChecked(s) /\ sess[s].buffer_time = 0 /\ call.duration_minutes > 0)
            => ~ret.has_conflicts

\* An offered slot of a positive duration_minutes was checked with a buffer
\* setting of 0 and with timed events in the calendar, and the check was
\* answered.
UnpaddedSlotChecked ==
    \E s \in Sessions :
        /\ SlotChecked(s)
        /\ sess[s].buffer_time = 0
        /\ call.duration_minutes > 0
        /\ call.net = "ok"
        /\ \E k \in 1..Len(calendar) :
               calendar[k].timed /\ calendar[k].end = FromIso(call.start_time)

====
